---- MODULE Spec2Model ----
(***************************************************************************)
(* Conversation engine of the Rugved AI chat client (src/src/App.js).      *)
(* The file holds two variants of the App component: the first one at      *)
(* lines 6-323 and the second one (login screen, logout, reply clean-up)   *)
(* at lines 411-837.  The variable "variant" says which one is mounted.    *)
(*                                                                         *)
(* A text is a sequence of fragments: a fragment is one character ("A",    *)
(* " ", "\n", "*", ...) or a literal the code embeds or receives as a      *)
(* whole (a fixed sentence, a remote error message, a status code).        *)
(*                                                                         *)
(* React commits the state updates of a handler before the next handler    *)
(* runs, so each handler, and each continuation of handleSendMessage       *)
(* between two awaits, is one atomic action.  What a continuation reads    *)
(* from its closure (settings, apiKey, newMessages) is the value captured  *)
(* when handleSendMessage was called and is kept in the request record.    *)
(***************************************************************************)
EXTENDS Integers, Sequences, FiniteSets, TLC

\* ------------------------------------------------------------------ bounds
MaxHistory == 3
MaxClock == 1
MaxQueue == 2
MaxLen == 4         \* length of a text handed to the text transforms

\* ------------------------------------------------------------ text helpers
WS == {" ", "\n"}

RECURSIVE trimStart(_)
trimStart(s) ==
  IF s = <<>> THEN s
  ELSE IF Head(s) \in WS THEN trimStart(Tail(s)) ELSE s

RECURSIVE trimEnd(_)
trimEnd(s) ==
  IF s = <<>> THEN s
  ELSE IF s[Len(s)] \in WS THEN trimEnd(SubSeq(s, 1, Len(s) - 1)) ELSE s

\* String.prototype.trim
trim(s) == trimEnd(trimStart(s))

RECURSIVE removeAll(_, _)
\* s.replace(/c/g, '') for the characters c of the set cs
removeAll(s, cs) ==
  IF s = <<>> THEN s
  ELSE IF Head(s) \in cs THEN removeAll(Tail(s), cs)
       ELSE <<Head(s)>> \o removeAll(Tail(s), cs)

\* the value JavaScript calls undefined, where a text is expected
Undefined == <<"<undefined>">>

\* ----------------------------------------------- regular-expression helpers
RECURSIVE wsRun(_, _)
\* length of the longest run of \s characters of s that starts at index i
wsRun(s, i) ==
  IF i > Len(s) THEN 0
  ELSE IF s[i] \in WS THEN 1 + wsRun(s, i + 1) ELSE 0

Digits == {"0", "1", "2", "3", "4", "5", "6", "7", "8", "9"}

RECURSIVE digitRun(_, _)
digitRun(s, i) ==
  IF i > Len(s) THEN 0
  ELSE IF s[i] \in Digits THEN 1 + digitRun(s, i + 1) ELSE 0

\* length of the list marker at index j: one character of the set marks, or
\* with marks = {} the numbered marker [0-9]+\.
markerLen(s, j, marks) ==
  IF j > Len(s) THEN 0
  ELSE IF marks # {} THEN (IF s[j] \in marks THEN 1 ELSE 0)
  ELSE LET d == digitRun(s, j)
       IN IF d > 0 /\ j + d <= Len(s) /\ s[j + d] = "." THEN d + 1 ELSE 0

\* length of the match of /^\s*MARKER\s*/m at index i, 0 when there is none
lineMarkerMatch(s, i, marks) ==
  IF ~(i = 1 \/ s[i - 1] = "\n") THEN 0
  ELSE LET w == wsRun(s, i)
           m == markerLen(s, i + w, marks)
       IN IF m = 0 THEN 0 ELSE w + m + wsRun(s, i + w + m)

RECURSIVE stripLineMarkersFrom(_, _, _)
stripLineMarkersFrom(s, i, marks) ==
  IF i > Len(s) THEN <<>>
  ELSE LET n == lineMarkerMatch(s, i, marks)
       IN IF n > 0 THEN stripLineMarkersFrom(s, i + n, marks)
          ELSE <<s[i]>> \o stripLineMarkersFrom(s, i + 1, marks)

\* s.replace(/^\s*MARKER\s*/gm, '')
stripLineMarkers(s, marks) == stripLineMarkersFrom(s, 1, marks)

RECURSIVE removePairs(_, _)
\* s.replace(/cc/g, '')
removePairs(s, c) ==
  IF Len(s) < 2 THEN s
  ELSE IF s[1] = c /\ s[2] = c THEN removePairs(SubSeq(s, 3, Len(s)), c)
       ELSE <<s[1]>> \o removePairs(Tail(s), c)

RECURSIVE nlRun(_, _)
nlRun(s, i) ==
  IF i > Len(s) THEN 0
  ELSE IF s[i] = "\n" THEN 1 + nlRun(s, i + 1) ELSE 0

RECURSIVE limitNewlinesFrom(_, _)
limitNewlinesFrom(s, i) ==
  IF i > Len(s) THEN <<>>
  ELSE LET n == nlRun(s, i)
       IN IF n >= 3 THEN <<"\n", "\n">> \o limitNewlinesFrom(s, i + n)
          ELSE <<s[i]>> \o limitNewlinesFrom(s, i + 1)

\* s.replace(/\n{3,}/g, '\n\n')
limitNewlines(s) == limitNewlinesFrom(s, 1)

\* the clean-up of the reply text in the second variant
cleanResponse(t) ==
  trim(limitNewlines(
    stripLineMarkers(
      stripLineMarkers(
        stripLineMarkers(removeAll(removePairs(t, "*"), {"*"}), {"-", "*"}),
        {}),
      {"-", "*", "+"})))

RECURSIVE closeIndex(_, _)
\* index of the first ">" of s at or after index i, 0 when there is none
closeIndex(s, i) ==
  IF i > Len(s) THEN 0
  ELSE IF s[i] = ">" THEN i ELSE closeIndex(s, i + 1)

RECURSIVE stripTagsFrom(_, _)
stripTagsFrom(s, i) ==
  IF i > Len(s) THEN <<>>
  ELSE IF s[i] = "<" /\ closeIndex(s, i + 1) > 0
       THEN stripTagsFrom(s, closeIndex(s, i + 1) + 1)
       ELSE <<s[i]>> \o stripTagsFrom(s, i + 1)

\* the replacement without the g flag: only the first tag goes
stripTagsFirst(s) ==
  LET open == { i \in DOMAIN s : s[i] = "<" /\ closeIndex(s, i + 1) > 0 }
  IN IF open = {} THEN s
     ELSE LET i == CHOOSE k \in open : \A m \in open : k <= m
          IN SubSeq(s, 1, i - 1)
               \o SubSeq(s, closeIndex(s, i + 1) + 1, Len(s))

\* s.replace(/<[^>]*>/g, '')
stripTags(s) == stripTagsFrom(s, 1)

\* s.replace(/\n/g, ' ')
newlinesToSpaces(s) == [i \in 1..Len(s) |-> IF s[i] = "\n" THEN " " ELSE s[i]]

RECURSIVE collapseSpacesFrom(_, _)
collapseSpacesFrom(s, i) ==
  IF i > Len(s) THEN <<>>
  ELSE LET w == wsRun(s, i)
       IN IF w > 0 THEN <<" ">> \o collapseSpacesFrom(s, i + w)
          ELSE <<s[i]>> \o collapseSpacesFrom(s, i + 1)

\* s.replace(/\s+/g, ' ')
collapseSpaces(s) == collapseSpacesFrom(s, 1)

\* the fragment that stands for the backtick character
Backtick == "BACKTICK"

\* the text speak hands to the output device in the second variant
speechClean(t) ==
  trim(collapseSpaces(newlinesToSpaces(
    removeAll(removeAll(removePairs(stripTags(t), "*"), {"*"}), {Backtick}))))


\* ------------------------------------------------------------ formatText
\* The tags formatText writes are one fragment each; none of them holds a
\* character a later replacement of the chain looks for.
matchAt(s, i, d) ==
  /\ i + Len(d) - 1 <= Len(s)
  /\ SubSeq(s, i, i + Len(d) - 1) = d

RECURSIVE closeOf(_, _, _)
\* index of the first d of s at or after index j with no newline before it
\* (. does not match a newline), 0 when there is none
closeOf(s, j, d) ==
  IF j > Len(s) THEN 0
  ELSE IF matchAt(s, j, d) THEN j
  ELSE IF s[j] = "\n" THEN 0
  ELSE closeOf(s, j + 1, d)

RECURSIVE wrapFrom(_, _, _, _, _)
\* s.replace(/d(.*?)d/g, open $1 close) from index i on
wrapFrom(s, i, d, open, close) ==
  IF i > Len(s) THEN <<>>
  ELSE IF matchAt(s, i, d) /\ closeOf(s, i + Len(d), d) > 0
       THEN LET j == closeOf(s, i + Len(d), d)
            IN open \o SubSeq(s, i + Len(d), j - 1) \o close
                 \o wrapFrom(s, j + Len(d), d, open, close)
       ELSE <<s[i]>> \o wrapFrom(s, i + 1, d, open, close)

newlinesToBreaks(s) == [i \in DOMAIN s |-> IF s[i] = "\n" THEN "<br>" ELSE s[i]]

formatText(text) ==
  IF text = <<>> THEN <<>>
  ELSE newlinesToBreaks(
         wrapFrom(
           wrapFrom(
             wrapFrom(
               wrapFrom(text, 1, <<"*", "*">>, <<"<strong>">>, <<"</strong>">>),
               1, <<"*">>, <<"<em>">>, <<"</em>">>),
             1, <<Backtick>>, <<"<code>">>, <<"</code>">>),
           1, <<"\"">>, <<"<strong>", "\"">>, <<"\"", "</strong>">>))

\* ------------------------------------------------------- program literals
Variants == {1, 2}

FallbackText == <<"I'm sorry, I couldn't generate a response. Please try again.">>
GenericErrorText == <<"Sorry, an error occurred. Please try again.">>
WentWrongPrefix == <<"Sorry, something went wrong: ">>
StatusPrefix == <<"API call failed with status: ">>

\* texts of the exceptions the runtime raises
FailedToFetch == <<"Failed to fetch">>
SyntaxErrorText == <<"Unexpected token < in JSON">>
TypeErrorText == <<"Cannot read properties of undefined">>

\* ------------------------------------------------------- the environment
Key == <<"k">>
Inputs == { <<" ", "\n">>, <<"A", " ">> }
Transcripts == { <<"A", " ">> }
RemoteMessages == { <<>>, <<"API key not valid">> }
ReplyTexts == { <<>>, <<"-", " ", "*", "H", "*">> }
Statuses == {200, 400}
StatusText(n) == IF n = 200 THEN <<"200">> ELSE <<"400">>

\* JSON bodies a response can carry, by the shape the code looks at
Bodies ==
  { [kind |-> "null", text |-> <<>>],       \* the JSON value null
    [kind |-> "empty", text |-> <<>>],      \* {} : no candidates, no error
    [kind |-> "noparts", text |-> <<>>],    \* candidates[0] without content parts
    [kind |-> "nontext", text |-> <<>>] }   \* parts[0] without a text string
  \cup { [kind |-> "text", text |-> t] : t \in ReplyTexts }
  \cup { [kind |-> "error", text |-> m] : m \in RemoteMessages }

VARIABLES
  variant,        \* which App component is mounted
  messages,       \* useState([])
  input,          \* useState('')
  isTyping,       \* useState(false)
  isRecording,    \* useState(false)
  settings,       \* useState({ voiceOutput: true })
  apiKey,         \* useState('')
  showApiModal,   \* useState(true)
  storedKey,      \* localStorage['rugved_api_key']
  requests,       \* calls of fetch that have not been settled and consumed
  now,            \* Date.now()
  hasRecognition, \* recognitionRef.current !== null
  recState,       \* the capture device
  hasSynthesis,   \* 'speechSynthesis' in window
  synthQueue,     \* speechSynthesis: the utterance spoken and those queued
  lastEvent,      \* "submit" after handleSendMessage ran, "mic" after
                  \* handleMicClick ran, "other" after anything else
  sanIn,          \* a text handed to the text transforms
  sanOut,         \* the result of the transform applied last
  sanOp           \* the transform applied last

vars == << variant, messages, input, isTyping, isRecording, settings, apiKey,
           showApiModal, storedKey, requests, now, hasRecognition,
           recState, hasSynthesis, synthQueue, lastEvent, sanIn, sanOut,
           sanOp >>

sanVars == << sanIn, sanOut, sanOp >>

\* ---------------------------------------------------------------- Init
\* the state after the mount effects: the saved key, when there is one, is
\* loaded and closes the login modal
Init ==
  /\ variant \in Variants
  /\ messages = <<>>
  /\ input = <<>>
  /\ isTyping = FALSE
  /\ isRecording = FALSE
  /\ settings = [voiceOutput |-> TRUE]
  /\ storedKey \in {<<>>, Key}
  /\ apiKey = storedKey
  /\ showApiModal = (storedKey = <<>>)
  /\ requests = <<>>
  /\ now = 0
  /\ hasRecognition \in BOOLEAN
  /\ recState = "inactive"
  /\ hasSynthesis \in BOOLEAN
  /\ synthQueue = <<>>
  /\ lastEvent = "other"
  /\ sanIn = <<>>
  /\ sanOut = <<>>
  /\ sanOp = "none"

\* ------------------------------------------------------ handleSendMessage
userMessage(t, n) == [text |-> t, sender |-> "user", error |-> FALSE, id |-> n]
aiMessage(t, n) == [text |-> t, sender |-> "ai", error |-> FALSE, id |-> n + 1]

\* the text of the message the catch block appends for the exception text e
errorText(e) == IF variant = 1 THEN WentWrongPrefix \o e ELSE GenericErrorText

errorMessage(e, n) == [text |-> errorText(e), sender |-> "ai", error |-> TRUE, id |-> n + 1]

roleSwapped(msg) == IF msg.sender = "user" THEN "model" ELSE "user"
role(msg) == IF msg.sender = "user" THEN "user" ELSE "model"

\* newMessages.map(msg => ({ role: ..., parts: [{ text: msg.text }] }))
chatHistory(ms) == [i \in 1..Len(ms) |-> [role |-> role(ms[i]), text |-> ms[i].text]]

sendRejectedNoTrim == input = <<>> \/ isTyping
sendRejectedNoPending == trim(input) = <<>>
\* if (input.trim() === '' || isTyping) return;
sendRejected == trim(input) = <<>> \/ isTyping

handleSendMessage ==
  /\ lastEvent' = "submit"
  /\ IF sendRejected
     THEN UNCHANGED << messages, input, isTyping, requests >>
     ELSE LET newMessages == Append(messages, userMessage(input, now))
          IN /\ messages' = newMessages
             /\ input' = <<>>
             /\ isTyping' = TRUE
             /\ requests' = Append(requests,
                  [ transcript |-> chatHistory(newMessages),
                    key |-> apiKey,
                    voiceOutput |-> settings.voiceOutput,
                    pc |-> "fetch",
                    status |-> 0 ])
  /\ UNCHANGED << sanVars, variant, isRecording, settings, apiKey, showApiModal,
                  storedKey, now, hasRecognition, recState,
                  hasSynthesis, synthQueue >>

\* --------------------------------------------------------------- speak
\* speak without speechSynthesis.cancel(): the utterance queues
speakNoCancel(text) ==
  IF hasSynthesis /\ text # <<>>
  THEN Append(synthQueue, IF variant = 1 THEN text ELSE speechClean(text))
  ELSE synthQueue

\* the queue of the output device after speak(text)
speak(text) ==
  IF hasSynthesis /\ text # <<>>
  THEN << IF variant = 1 THEN text ELSE speechClean(text) >>
  ELSE synthQueue

\* ------------------------------------------- the reply, after each await
removeAt(q, i) == SubSeq(q, 1, i - 1) \o SubSeq(q, i + 1, Len(q))

ok(status) == status >= 200 /\ status <= 299

catchNoFinally(i, done, e) ==
  /\ messages' = (messages \o done) \o << errorMessage(e, now) >>
  /\ requests' = removeAt(requests, i)
  /\ UNCHANGED << isTyping, synthQueue >>

catchFinallyReplace(i, done, e) ==
  /\ messages' = SubSeq(messages \o done, 1, Len(messages \o done) - 1)
                    \o << errorMessage(e, now) >>
  /\ isTyping' = FALSE
  /\ requests' = removeAt(requests, i)
  /\ UNCHANGED synthQueue

\* the catch block and the finally block, reached with the exception text e
\* after the try block has appended the messages in done
catchFinally(i, done, e) ==
  /\ messages' = (messages \o done) \o << errorMessage(e, now) >>
  /\ isTyping' = FALSE
  /\ requests' = removeAt(requests, i)
  /\ UNCHANGED synthQueue

\* fetch rejects: the network call failed
fetchRejected(i) ==
  /\ requests[i].pc = "fetch"
  /\ catchFinally(i, <<>>, FailedToFetch)

fetchResolvedEarlyIdle(i, st) ==
  /\ requests[i].pc = "fetch"
  /\ requests' = [requests EXCEPT ![i].pc = "json", ![i].status = st]
  /\ isTyping' = FALSE
  /\ UNCHANGED << messages, synthQueue >>

\* fetch resolves with a response of the given status
fetchResolved(i, st) ==
  /\ requests[i].pc = "fetch"
  /\ requests' = [requests EXCEPT ![i].pc = "json", ![i].status = st]
  /\ UNCHANGED << messages, isTyping, synthQueue >>

\* response.json() rejects: the body is not JSON
jsonRejected(i) ==
  /\ requests[i].pc = "json"
  /\ catchFinally(i, <<>>, SyntaxErrorText)

\* the message of the Error thrown for a non-success status
rejectionText(st, b) ==
  IF variant = 2 THEN GenericErrorText
  ELSE IF b.kind # "error" THEN TypeErrorText
  ELSE IF b.text # <<>> THEN b.text
  ELSE StatusPrefix \o StatusText(st)

hasParts(b) == b.kind \in {"text", "nontext"}

\* the try block from the append of the reply to its end, for the text t
appendAndSpeak(i, t) ==
  IF requests[i].voiceOutput /\ t = Undefined
  THEN catchFinally(i, << aiMessage(t, now) >>, TypeErrorText)
  ELSE /\ messages' = Append(messages, aiMessage(t, now))
       /\ synthQueue' = IF requests[i].voiceOutput THEN speak(trim(t)) ELSE synthQueue
       /\ isTyping' = FALSE
       /\ requests' = removeAt(requests, i)

jsonResolvedStrict(i, b) ==
  /\ requests[i].pc = "json"
  /\ IF ~ok(requests[i].status)
     THEN catchFinally(i, <<>>, rejectionText(requests[i].status, b))
     ELSE IF b.kind = "null" \/ ~hasParts(b)
     THEN catchFinally(i, <<>>, TypeErrorText)
     ELSE IF b.kind = "text"
     THEN appendAndSpeak(i, IF variant = 1 THEN b.text ELSE cleanResponse(b.text))
     ELSE IF variant = 1
     THEN appendAndSpeak(i, Undefined)
     ELSE catchFinally(i, <<>>, TypeErrorText)

\* response.json() resolves with the body b
jsonResolved(i, b) ==
  /\ requests[i].pc = "json"
  /\ IF ~ok(requests[i].status)
     THEN catchFinally(i, <<>>, rejectionText(requests[i].status, b))
     ELSE IF b.kind = "null"
     THEN catchFinally(i, <<>>, TypeErrorText)
     ELSE IF ~hasParts(b)
     THEN appendAndSpeak(i, FallbackText)
     ELSE IF b.kind = "text"
     THEN appendAndSpeak(i, IF variant = 1 THEN b.text ELSE cleanResponse(b.text))
     ELSE IF variant = 1
     THEN appendAndSpeak(i, Undefined)
     ELSE catchFinally(i, <<>>, TypeErrorText)

replyFrame ==
  /\ lastEvent' = "other"
  /\ UNCHANGED << sanVars, variant, input, isRecording, settings, apiKey, showApiModal,
                  storedKey, now, hasRecognition, recState,
                  hasSynthesis >>

\* ------------------------------------------------------- other handlers
\* the textarea's onChange
setInput(t) ==
  /\ input' = t
  /\ lastEvent' = "other"
  /\ UNCHANGED << sanVars, variant, messages, isTyping, isRecording, settings, apiKey,
                  showApiModal, storedKey, requests, now,
                  hasRecognition, recState, hasSynthesis, synthQueue >>

\* the login form, rendered while showApiModal, is submitted with the
\* password field (tempApiKey) holding k
handleApiKeySubmit(k) ==
  /\ showApiModal
  /\ lastEvent' = "other"
  /\ IF k # <<>>
     THEN /\ apiKey' = k
          /\ storedKey' = k
          /\ showApiModal' = FALSE
     ELSE UNCHANGED << apiKey, storedKey, showApiModal >>
  /\ UNCHANGED << sanVars, variant, messages, input, isTyping, isRecording, settings,
                  requests, now, hasRecognition, recState, hasSynthesis,
                  synthQueue >>

\* only the second variant has a logout button
handleLogout ==
  /\ variant = 2
  /\ apiKey' = <<>>
  /\ storedKey' = <<>>
  /\ showApiModal' = TRUE
  /\ messages' = <<>>
  /\ lastEvent' = "other"
  /\ UNCHANGED << sanVars, variant, input, isTyping, isRecording, settings, requests, now, hasRecognition, recState, hasSynthesis,
                  synthQueue >>

handleSettingsChange ==
  /\ settings' = [settings EXCEPT !.voiceOutput = ~settings.voiceOutput]
  /\ lastEvent' = "other"
  /\ UNCHANGED << sanVars, variant, messages, input, isTyping, isRecording, apiKey,
                  showApiModal, storedKey, requests, now,
                  hasRecognition, recState, hasSynthesis, synthQueue >>

\* ---------------------------------------------------------- voice input
\* recState: "inactive", "listening", "stopping" (stop() was called, the
\* device has not ended yet), "ending" (a result was delivered, the end
\* event is still to come), "errored" (an error was delivered, the end event
\* is still to come).  start() on a started device on which no error or end
\* event has fired throws InvalidStateError and the handler ends there;
\* after an error event a browser may accept start() or still throw.
handleMicClick ==
  IF ~hasRecognition
  THEN /\ lastEvent' = "mic"
       /\ UNCHANGED << isRecording, recState >>
  ELSE IF isRecording
  THEN /\ recState' = IF recState = "listening" THEN "stopping" ELSE recState
       /\ isRecording' = FALSE
       /\ lastEvent' = "mic"
  ELSE \/ /\ recState \in {"inactive", "errored"}
          /\ recState' = "listening"
          /\ isRecording' = TRUE
          /\ lastEvent' = "mic"
       \/ /\ recState # "inactive"
          /\ lastEvent' = "mic"
          /\ UNCHANGED << isRecording, recState >>

micFrame ==
  UNCHANGED << sanVars, variant, messages, input, isTyping, settings, apiKey,
               showApiModal, storedKey, requests, now,
               hasRecognition, hasSynthesis, synthQueue >>

\* recognition.onresult
onresultSends(t) ==
  /\ recState \in {"listening", "stopping"}
  /\ Len(messages) <= MaxHistory
  /\ messages' = Append(messages, userMessage(t, now))
  /\ isRecording' = FALSE
  /\ recState' = "ending"
  /\ lastEvent' = "other"
  /\ UNCHANGED << sanVars, variant, input, isTyping, settings, apiKey,
                  showApiModal, storedKey, requests, now, hasRecognition,
                  hasSynthesis, synthQueue >>

onresult(t) ==
  /\ recState \in {"listening", "stopping"}
  /\ input' = t
  /\ isRecording' = FALSE
  /\ recState' = "ending"
  /\ lastEvent' = "other"
  /\ UNCHANGED << sanVars, variant, messages, isTyping, settings, apiKey, showApiModal,
                  storedKey, requests, now, hasRecognition,
                  hasSynthesis, synthQueue >>

\* an error handler that only logs
onerrorLogsOnly ==
  /\ recState \in {"listening", "stopping"}
  /\ recState' = "errored"
  /\ lastEvent' = "other"
  /\ UNCHANGED << sanVars, variant, messages, input, isTyping, isRecording,
                  settings, apiKey, showApiModal, storedKey, requests, now,
                  hasRecognition, hasSynthesis, synthQueue >>

\* recognition.onerror
onerror ==
  /\ recState \in {"listening", "stopping"}
  /\ isRecording' = FALSE
  /\ recState' = "errored"
  /\ lastEvent' = "other"
  /\ UNCHANGED << sanVars, variant, messages, input, isTyping, settings, apiKey,
                  showApiModal, storedKey, requests, now,
                  hasRecognition, hasSynthesis, synthQueue >>

\* recognition.onend
onend ==
  /\ recState # "inactive"
  /\ isRecording' = FALSE
  /\ recState' = "inactive"
  /\ lastEvent' = "other"
  /\ UNCHANGED << sanVars, variant, messages, input, isTyping, settings, apiKey,
                  showApiModal, storedKey, requests, now,
                  hasRecognition, hasSynthesis, synthQueue >>

\* --------------------------------------------------------- voice output
\* the speak button of a message bubble, rendered for a reply that has a
\* text and is not an error
handleSpeak(i) ==
  /\ messages[i].sender # "user"
  /\ messages[i].text \notin {<<>>, Undefined}
  /\ ~messages[i].error
  /\ synthQueue' = IF hasSynthesis THEN << messages[i].text >> ELSE synthQueue
  /\ lastEvent' = "other"
  /\ UNCHANGED << sanVars, variant, messages, input, isTyping, isRecording, settings,
                  apiKey, showApiModal, storedKey, requests, now,
                  hasRecognition, recState, hasSynthesis >>

\* the output device finishes the utterance it is speaking
utteranceEnd ==
  /\ synthQueue # <<>>
  /\ synthQueue' = Tail(synthQueue)
  /\ lastEvent' = "other"
  /\ UNCHANGED << sanVars, variant, messages, input, isTyping, isRecording, settings,
                  apiKey, showApiModal, storedKey, requests, now,
                  hasRecognition, recState, hasSynthesis >>

\* ------------------------------------------------------------ the clock
tick ==
  /\ now < MaxClock
  /\ now' = now + 1
  /\ lastEvent' = "other"
  /\ UNCHANGED << sanVars, variant, messages, input, isTyping, isRecording, settings,
                  apiKey, showApiModal, storedKey, requests,
                  hasRecognition, recState, hasSynthesis, synthQueue >>

\* ----------------------------------------------------- the specification
Submit == Len(messages) < MaxHistory /\ Len(requests) < MaxQueue /\ handleSendMessage
FetchRejected == \E i \in DOMAIN requests : fetchRejected(i) /\ replyFrame
FetchResolved == \E i \in DOMAIN requests, st \in Statuses : fetchResolved(i, st) /\ replyFrame
JsonRejected == \E i \in DOMAIN requests : jsonRejected(i) /\ replyFrame
JsonResolved == \E i \in DOMAIN requests, b \in Bodies : jsonResolved(i, b) /\ replyFrame
Reply == FetchRejected \/ FetchResolved \/ JsonRejected \/ JsonResolved
SetInput == \E t \in Inputs : setInput(t)
Login == \E k \in {<<>>, Key} : handleApiKeySubmit(k)
MicClick == handleMicClick /\ micFrame
OnResult == \E t \in Transcripts : onresult(t)
Speak == \E i \in DOMAIN messages : handleSpeak(i)

Next ==
  \/ Submit
  \/ FetchRejected
  \/ FetchResolved
  \/ JsonRejected
  \/ JsonResolved
  \/ SetInput
  \/ Login
  \/ handleLogout
  \/ handleSettingsChange
  \/ MicClick
  \/ OnResult
  \/ onerror
  \/ onend
  \/ Speak
  \/ utteranceEnd

Spec == Init /\ [][Next]_vars

\* The handlers that read or write the pipeline's state.  The capture and
\* output devices are left out of the fair specification: their handlers
\* write only input, isRecording, recState and synthQueue.
PipelineNext ==
  \/ Submit
  \/ FetchRejected
  \/ FetchResolved
  \/ JsonRejected
  \/ JsonResolved
  \/ SetInput
  \/ Login
  \/ handleLogout
  \/ handleSettingsChange

\* every call that was issued is settled, and the body of every response
\* that arrived is read
FairSpec == Init /\ [][PipelineNext]_vars /\ WF_vars(Reply)

\* The capture device and the handlers that read or write its state.  An
\* activation of the device ends: a started device delivers a result, an
\* error or its end event.
DeviceEvent == OnResult \/ onerror \/ onend

VoiceNext ==
  \/ MicClick
  \/ OnResult
  \/ onerror
  \/ onend
  \/ SetInput

VoiceFairSpec == Init /\ [][VoiceNext]_vars /\ WF_vars(DeviceEvent)

\* The pipeline under the millisecond clock: Date.now() is read at the
\* submit and again when the reply is processed.
ClockNext ==
  \/ Submit
  \/ FetchRejected
  \/ FetchResolved
  \/ JsonRejected
  \/ JsonResolved
  \/ SetInput
  \/ tick

ClockSpec == Init /\ [][ClockNext]_vars

\* ---------------------------------------------------- the text transforms
\* The texts handed to the transforms: every string of at most MaxLen
\* characters over the characters the transforms look for and a letter.
Alphabet == {"<", ">", "&", "*", Backtick, "\"", " ", "\n", "a"}
Texts == UNION { [1..n -> Alphabet] : n \in 0..MaxLen }

TextInit ==
  /\ variant = 2
  /\ messages = <<>>
  /\ input = <<>>
  /\ isTyping = FALSE
  /\ isRecording = FALSE
  /\ settings = [voiceOutput |-> TRUE]
  /\ storedKey = Key
  /\ apiKey = Key
  /\ showApiModal = FALSE
  /\ requests = <<>>
  /\ now = 0
  /\ hasRecognition = TRUE
  /\ recState = "inactive"
  /\ hasSynthesis = TRUE
  /\ synthQueue = <<>>
  /\ lastEvent = "other"
  /\ sanIn \in Texts
  /\ sanOut = <<>>
  /\ sanOp = "none"

textFrame ==
  UNCHANGED << variant, messages, input, isTyping, isRecording, settings,
               apiKey, showApiModal, storedKey, requests, now,
               hasRecognition, recState, hasSynthesis, synthQueue, lastEvent,
               sanIn >>

\* speak cleans the text it is given
cleanForSpeech ==
  /\ sanOp = "none"
  /\ sanOut' = speechClean(sanIn)
  /\ sanOp' = "speak"
  /\ textFrame

\* speak is given a text it cleaned before
cleanAgain ==
  /\ sanOp = "speak"
  /\ sanOut' = speechClean(sanOut)
  /\ sanOp' = "speak2"
  /\ textFrame

\* a bubble renders the text of a reply
renderReply ==
  /\ sanOp = "none"
  /\ sanOut' = formatText(sanIn)
  /\ sanOp' = "display"
  /\ textFrame

TextNext ==
  \/ cleanForSpeech
  \/ cleanAgain
  \/ renderReply

TextSpec == TextInit /\ [][TextNext]_vars

\* ------------------------------------------------------------ properties
IsPrefix(s, t) == Len(s) <= Len(t) /\ SubSeq(t, 1, Len(s)) = s
blank(t) == trim(t) = <<>>
last(q) == q[Len(q)]
submitRan == lastEvent' = "submit"
untouched == messages' = messages /\ isTyping' = isTyping /\ input' = input
             /\ requests' = requests

\* ----------------------------------------------------------------- C1
\* C1: handleSendMessage called while a request is in flight (isTyping) is a
\* no-op: history, pending flag, typed input and the list of issued calls
\* are all unchanged, so of two submissions made before the first reply
\* arrives only the first one is processed.
C1_PendingSubmitIsNoOp == [][(isTyping /\ submitRan) => (untouched /\ isTyping')]_vars

\* a non-blank input was submitted while a request was in flight
C1_Witness == isTyping /\ lastEvent = "submit" /\ ~blank(input) /\ Len(requests) = 1

\* ----------------------------------------------------------------- C2
\* C2: an accepted submit appends exactly one user message at once, the
\* completion of its call appends exactly one assistant message, and from
\* the accepted submit to the return to idle the history grows by exactly 2
\* (the transcript of the call has the length of the history right after
\* the submit, so the history at the return to idle is one longer).
C2_TurnGrowsByTwo ==
  [][ /\ (~isTyping /\ isTyping') =>
           (Len(messages') = Len(messages) + 1 /\ last(messages').sender = "user")
      /\ (isTyping /\ ~isTyping') =>
           /\ Len(messages') = Len(messages) + 1
           /\ last(messages').sender = "ai"
           /\ requests # <<>> => Len(messages') = Len(requests[1].transcript) + 1
    ]_vars

\* ----------------------------------------------------------------- C3
\* C3: in every reachable state at most one call to the remote service is
\* outstanding, and isTyping is true exactly while one is outstanding.
C3_SingleInFlight == Len(requests) <= 1 /\ (isTyping <=> requests # <<>>)

\* the body of the one outstanding call is being read while the user has
\* typed the next message and the capture device is active
C3_Witness ==
  /\ Len(requests) = 1 /\ requests[1].pc = "json" /\ isTyping
  /\ ~blank(input) /\ recState # "inactive"

\* ----------------------------------------------------------------- C4
\* C4: every completion of the call (success, non-success status, malformed
\* body, exception in the reply handling) resets isTyping to false; an idle
\* pipeline accepts the next non-blank submit; and, every issued call being
\* completed, every state with isTyping true is followed by one where it is
\* false.
C4_AlwaysBackToIdle ==
  /\ [][Len(requests') < Len(requests) => ~isTyping']_vars
  /\ [][(submitRan /\ ~isTyping /\ ~blank(input)) =>
          (isTyping' /\ Len(messages') = Len(messages) + 1)]_vars
  /\ (isTyping ~> ~isTyping)

\* a submit was accepted right after a failed turn
C4_Witness ==
  /\ isTyping /\ Len(messages) >= 2
  /\ messages[Len(messages) - 1].error
  /\ last(messages).sender = "user"

\* ----------------------------------------------------------------- C5
\* the fragments that tell the cause of a failure: exception texts, status
\* codes, messages of the remote service
ErrorDetails ==
  { FailedToFetch[1], SyntaxErrorText[1], TypeErrorText[1], StatusPrefix[1] }
  \cup { StatusText(n)[1] : n \in Statuses }
  \cup { m[1] : m \in RemoteMessages \ {<<>>} }

\* C5: the message appended for a failed turn is error-flagged and its text
\* is one fixed string: it holds no status code, no remote error message
\* and no exception text, and any two error messages have the same text.
C5_ErrorTextIsFixed ==
  \A i \in DOMAIN messages :
    messages[i].error =>
      /\ \A k \in DOMAIN messages[i].text : messages[i].text[k] \notin ErrorDetails
      /\ \A j \in DOMAIN messages : messages[j].error => messages[j].text = messages[i].text

\* ----------------------------------------------------------------- C6
\* C6: with no credential (apiKey empty) a submit leaves the history
\* unchanged and issues no network call.
C6_NoCredentialNoCall ==
  [][(apiKey = <<>> /\ submitRan) => (messages' = messages /\ requests' = requests)]_vars

\* ----------------------------------------------------------------- C7
\* C7: a submit whose input is empty or only whitespace changes nothing:
\* history, isTyping and the input text are unchanged and no call is issued.
C7_BlankSubmitIsNoOp == [][(blank(input) /\ submitRan) => untouched]_vars

\* a whitespace-only input was submitted while the pipeline was idle
C7_Witness ==
  /\ lastEvent = "submit" /\ input # <<>> /\ blank(input)
  /\ ~isTyping /\ requests = <<>>

\* ----------------------------------------------------------------- C8
\* C8: the transcript of a call that is issued is the whole history right
\* after the append of the user message, in order: same length, user
\* messages as role "user", the others as role "model", each entry with the
\* stored text, the last entry being the new user message.
C8_TranscriptIsHistory ==
  [][Len(requests') > Len(requests) =>
      LET tr == last(requests').transcript
      IN /\ Len(tr) = Len(messages')
         /\ Len(messages') = Len(messages) + 1
         /\ IsPrefix(messages, messages')
         /\ last(messages').sender = "user"
         /\ last(messages').text = input
         /\ \A k \in DOMAIN tr :
              /\ tr[k].text = messages'[k].text
              /\ (messages'[k].sender = "user") => tr[k].role = "user"
              /\ (messages'[k].sender = "ai") => tr[k].role = "model"
    ]_vars

\* a call is outstanding whose transcript holds an earlier turn
C8_Witness ==
  \E i \in DOMAIN requests :
    LET tr == requests[i].transcript
    IN Len(tr) >= 3 /\ tr[1].role = "user" /\ tr[2].role = "model"
       /\ last(tr).role = "user"

\* ----------------------------------------------------------------- C9
\* C9: apart from logout, every step leaves the previous history as a
\* prefix of the new one: no message is removed, reordered or edited.
C9_AppendOnly == [][handleLogout \/ IsPrefix(messages, messages')]_vars

\* two complete turns are in the history, the first of them failed
C9_Witness ==
  /\ Len(messages) >= 4 /\ ~isTyping
  /\ messages[2].error /\ messages[3].sender = "user"

\* ---------------------------------------------------------------- C10
\* C10: a success-status response without generated content (no candidates,
\* or a first candidate without content parts) ends the turn with one more
\* message, which carries the fallback apology and is not error-flagged.
C10_NoContentFallsBack ==
  [][\A i \in DOMAIN requests, b \in Bodies :
       (requests[i].pc = "json" /\ ok(requests[i].status) /\ b.kind \in {"empty", "noparts", "error"} /\ jsonResolved(i, b))
         => /\ Len(messages') = Len(messages) + 1
            /\ last(messages').text = FallbackText
            /\ last(messages').sender = "ai"
            /\ ~last(messages').error
            /\ ~isTyping'
    ]_vars

\* a turn has ended with the fallback apology, not flagged as an error
C10_Witness ==
  /\ ~isTyping /\ messages # <<>>
  /\ last(messages).text = FallbackText /\ ~last(messages).error

\* ---------------------------------------------------------------- C11
\* C11: cleaning a text for speech a second time changes nothing:
\* speechClean(speechClean(x)) = speechClean(x) for every text x over
\* "<", ">", "*", the backtick, the space, the newline and a letter (and
\* over "&" and the double quote as well).
C11_SpeechCleanIdempotent ==
  sanOp = "speak2" => sanOut = speechClean(sanIn)

C11_Witness ==
  /\ sanOp = "speak2"
  /\ sanIn = <<"<", "*", ">", "a">>
  /\ sanOut = <<"a">>

\* ---------------------------------------------------------------- C12
\* C12: the text a bubble displays holds no markup the input controls: no
\* "<", ">" or "&" of the input reaches the output unescaped, so every tag
\* of the output is one formatText wrote itself.
C12_NoInputMarkup ==
  sanOp = "display" => \A k \in DOMAIN sanOut : sanOut[k] \notin {"<", ">", "&"}

\* ---------------------------------------------------------------- C13
\* C13: at most one utterance is active on the output device in every
\* reachable state: speak and the speak button of a bubble cancel the
\* utterance in progress before they start theirs, so a new utterance
\* replaces the previous one and never queues behind it.
C13_OneUtterance == Len(synthQueue) <= 1

\* the reply of a second turn is being spoken, after the reply of the first
C13_Witness ==
  /\ Len(messages) = 4
  /\ messages[4].sender = "ai"
  /\ ~messages[4].error
  /\ messages[4].text # messages[2].text
  /\ ~messages[2].error
  /\ synthQueue # <<>>
  /\ synthQueue = speak(trim(messages[4].text))

\* ---------------------------------------------------------------- C14
\* C14: with a capture device, a click on the mic while isRecording is false
\* starts the device and sets isRecording, and a click while isRecording is
\* true asks the device to stop and starts nothing; with no capture device
\* a click changes no state.
C14_MicToggles ==
  [][lastEvent' = "mic" =>
       IF ~hasRecognition
       THEN UNCHANGED << messages, input, isTyping, isRecording, settings,
                         apiKey, showApiModal, storedKey, requests, recState,
                         synthQueue >>
       ELSE IF isRecording
       THEN recState' = "stopping"
       ELSE isRecording' /\ recState' = "listening"]_vars

\* ---------------------------------------------------------------- C15
\* C15: a click that stops the capture leaves isRecording true (it falls
\* only once the device has ended), and a click that starts the capture
\* finds the device inactive.
C15_IdleOnceDeviceEnded ==
  [][(lastEvent' = "mic" /\ hasRecognition) =>
       IF isRecording THEN isRecording' ELSE recState = "inactive"]_vars

\* ---------------------------------------------------------------- C16
\* C16: every event of the capture device that ends an activation (a
\* result, an error, the end event) leaves isRecording false whatever it
\* was before; after a result the device delivers nothing but its end
\* event; and, the device ending every activation, isRecording true is
\* always followed by isRecording false.
C16_CaptureEnds ==
  /\ [][(recState' # recState /\ recState' \in {"ending", "errored", "inactive"})
          => ~isRecording']_vars
  /\ [][recState = "ending" => recState' \in {"ending", "inactive"}]_vars
  /\ (isRecording ~> ~isRecording)

\* an error of the device has ended a capture
C16_Witness ==
  /\ recState = "errored"
  /\ ~isRecording
  /\ lastEvent = "other"

\* ---------------------------------------------------------------- C17
\* C17: a step of the voice input (a click on the mic, a result, an error
\* or the end event of the device) leaves the history, isTyping and the
\* outstanding calls as they are, also while a call is outstanding; of the
\* input it changes nothing unless it delivers a transcript; and a user
\* message enters the history only in a step of handleSendMessage.
C17_VoiceLeavesHistory ==
  [][/\ (lastEvent' = "mic" \/ recState' # recState \/ isRecording' # isRecording)
          => /\ messages' = messages
             /\ isTyping' = isTyping
             /\ requests' = requests
             /\ (input' # input => (recState' = "ending" /\ input' \in Transcripts))
     /\ (Len(messages') > Len(messages) /\ last(messages').sender = "user")
          => submitRan]_vars

\* a result has been delivered while a call is outstanding
C17_Witness ==
  /\ isTyping
  /\ requests # <<>>
  /\ recState = "ending"
  /\ input \in Transcripts

\* ---------------------------------------------------------------- C18
\* C18: the step that ends a turn hands the text of the reply to speak
\* exactly when the turn succeeded and voice output is enabled in the
\* settings as they are at that step; a turn that failed leaves the output
\* device alone.
C18_SpeaksIffEnabledAtReply ==
  [][Len(requests') < Len(requests) =>
       IF ~last(messages').error /\ settings.voiceOutput
       THEN synthQueue' = speak(trim(last(messages').text))
       ELSE synthQueue' = synthQueue]_vars

\* ---------------------------------------------------------------- C19
\* C19: the messages of the history have pairwise distinct ids, whatever
\* the clock reads at the submits and at the replies.
C19_DistinctIds ==
  \A i, j \in DOMAIN messages : i # j => messages[i].id # messages[j].id

\* ---------------------------------------------------------------- C20
\* C20: an empty history (at the start, or after handleLogout cleared it)
\* stays empty until handleSendMessage accepts a submit: the reply to a
\* call that was outstanding when the history was cleared is not appended.
C20_ClearedStaysEmpty ==
  [][(messages = <<>> /\ messages' # <<>>) => submitRan]_vars

====
